---- MODULE Spec2Model ----
(***************************************************************************)
(* A model of basic_string_view (include/string_view.hpp): a non-owning    *)
(* (pointer, length) view over characters held in memory, with its         *)
(* slicing, comparison and search operations.                              *)
(*                                                                         *)
(* Memory is one null-terminated character buffer `mem`: MaxLen characters *)
(* at addresses 1..MaxLen and the terminator at address MaxLen + 1, which  *)
(* is also the one-past-the-end pointer of the characters. Address 0 is    *)
(* the null pointer. A pointer is an address; p + n is the address n       *)
(* characters further.                                                     *)
(* size_type is an unsigned integer of W bits, so npos = 2^W - 1 and       *)
(* unsigned arithmetic is taken modulo 2^W.                                *)
(***************************************************************************)
EXTENDS Integers, Sequences, FiniteSets, TLC

\* ------------------------------------------------------------------ bounds

\* Number of characters in the buffer the views are constructed over.
MaxLen == 3

\* Width of size_type in bits.
W == 3

\* ----------------------------------------------------------------- helpers

Modulus == 2 ^ W

\* static constexpr size_type npos = size_type(-1)
npos == Modulus - 1

\* Unsigned arithmetic of size_type.
Wrap(x) == x % Modulus

\* std::min on size_type.
Min(a, b) == IF b < a THEN b ELSE a

\* The character values stored in memory (two distinct codes, 'a' and 'c').
Chars == {97, 99}

\* The terminating null character, CharT().
NUL == 0

\* The null pointer.
NULL == 0

\* Addresses of the buffer's characters, and with its one-past-the-end pointer.
Addrs == 1 .. MaxLen
Ptrs == 1 .. (MaxLen + 1)

\* Values a caller passes for a position or a count: every value up to one
\* past the buffer's length, and the two largest values of size_type.
SizeVals == {n \in 0 .. npos : n <= MaxLen + 1 \/ n >= npos - 1}

\* The value of `ret` when a call produced no result.
NoResult == "none"

VARIABLES
  mem,      \* the buffer: Addrs -> Chars, and NUL at MaxLen + 1
  s,        \* the view the member functions are called on: [m_data, m_size]
  v,        \* the view passed as argument
  op,       \* the operation that ran last
  args,     \* its integer arguments
  ret,      \* what it returned
  thrown,   \* whether it threw std::out_of_range
  dest,     \* the destination array of a copy, while the call's result is held
  acc,      \* the characters the last call read, and its loop's iterations
  os        \* the output stream of a stream insertion, while its result is held

vars == <<mem, s, v, op, args, ret, thrown, dest, acc, os>>

\* --------------------------------------------------------------- the views

\* basic_string_view(): m_data(nullptr), m_size(0)
basic_string_view_default == [m_data |-> NULL, m_size |-> 0]

\* basic_string_view(const CharT* s, size_type count): m_data(s), m_size(count)
basic_string_view(p, count) == [m_data |-> p, m_size |-> count]

\* The views a caller may construct: the default one, and every [p, p + count)
\* that is a valid range of the buffer (count may be 0 at any pointer).
ValidViews ==
  {basic_string_view_default} \cup
  {basic_string_view(q[1], q[2]) :
     q \in {r \in Ptrs \X (0 .. MaxLen) : r[1] + r[2] <= MaxLen + 1}}

\* m_data[pos]
Deref(p) == mem[p]

\* The characters a view denotes, as a sequence.
Content(sv) == [i \in 1 .. sv.m_size |-> mem[sv.m_data + i - 1]]

\* --------------------------------------------------------- element access

\* at(pos): the character at pos, or std::out_of_range.
at(sv, pos) ==
  IF pos < sv.m_size
    THEN [thrown |-> FALSE, val |-> Deref(sv.m_data + pos)]
    ELSE [thrown |-> TRUE, val |-> NoResult]

\* ------------------------------------------------------------------ substr

\* substr refusing pos == m_size.
substr_throw_at_end(sv, pos, count) ==
  IF sv.m_size <= pos
    THEN [thrown |-> TRUE, val |-> NoResult]
    ELSE LET rcount == Min(count, Wrap(sv.m_size - pos))
         IN  [thrown |-> FALSE,
              val |-> IF rcount <= 0 THEN basic_string_view_default
                      ELSE basic_string_view(sv.m_data + pos, rcount)]

\* substr returning a zero-length alias at m_data + pos.
substr_alias_empty(sv, pos, count) ==
  IF sv.m_size < pos
    THEN [thrown |-> TRUE, val |-> NoResult]
    ELSE LET rcount == Min(count, Wrap(sv.m_size - pos))
         IN  [thrown |-> FALSE, val |-> basic_string_view(sv.m_data + pos, rcount)]

\* substr clamping count to m_size, not to m_size - pos.
substr_no_clamp(sv, pos, count) ==
  IF sv.m_size < pos
    THEN [thrown |-> TRUE, val |-> NoResult]
    ELSE LET rcount == Min(count, sv.m_size)
         IN  [thrown |-> FALSE,
              val |-> IF rcount <= 0 THEN basic_string_view_default
                      ELSE basic_string_view(sv.m_data + pos, rcount)]

\* substr(pos, count): throws when m_size < pos; otherwise the view of
\* rcount = min(count, m_size - pos) characters at m_data + pos, and the
\* default-constructed view when rcount is 0.
substr(sv, pos, count) ==
  IF sv.m_size < pos
    THEN [thrown |-> TRUE, val |-> NoResult]
    ELSE LET rcount == Min(count, Wrap(sv.m_size - pos))
         IN  [thrown |-> FALSE,
              val |-> IF rcount <= 0 THEN basic_string_view_default
                      ELSE basic_string_view(sv.m_data + pos, rcount)]

\* --------------------------------------------------------------- modifiers

\* remove_prefix advancing m_data and keeping m_size.
remove_prefix_keep_size(sv, n) ==
  [m_data |-> sv.m_data + n, m_size |-> sv.m_size]

\* remove_prefix(n): m_data += n; m_size -= n
remove_prefix(sv, n) ==
  [m_data |-> sv.m_data + n, m_size |-> Wrap(sv.m_size - n)]

\* remove_suffix(n): m_size -= n
remove_suffix(sv, n) ==
  [m_data |-> sv.m_data, m_size |-> Wrap(sv.m_size - n)]

\* swap(v): other = *this; *this = v; v = other. The pair <<*this, v>> after.
swap(this, vv) ==
  LET other == this
  IN  <<vv, other>>

\* operator=(view): *this after the (defaulted) copy assignment.
operator_assign(this, view) == view

\* -------------------------------------------------------------------- copy

\* A destination array of MaxLen characters, zero-initialised.
FreshDest == [i \in 1 .. MaxLen |-> NUL]

\* Traits::copy(dest, src, n): dest[0 .. n) = src[0 .. n).
traits_copy(d, src, n) ==
  [i \in DOMAIN d |-> IF i <= n THEN Deref(src + i - 1) ELSE d[i]]

\* copy reading from m_data, not from m_data + pos.
copy_ignore_pos(sv, d, count, pos) ==
  IF sv.m_size < pos
    THEN [thrown |-> TRUE, val |-> NoResult, out |-> d]
    ELSE LET rcount == Min(count, Wrap(sv.m_size - pos))
         IN  [thrown |-> FALSE, val |-> rcount,
              out |-> traits_copy(d, sv.m_data, rcount)]

\* copy(dest, count, pos): throws when m_size < pos; otherwise copies
\* rcount = min(count, m_size - pos) characters from m_data + pos and
\* returns rcount.
copy(sv, d, count, pos) ==
  IF sv.m_size < pos
    THEN [thrown |-> TRUE, val |-> NoResult, out |-> d]
    ELSE LET rcount == Min(count, Wrap(sv.m_size - pos))
         IN  [thrown |-> FALSE, val |-> rcount,
              out |-> traits_copy(d, sv.m_data + pos, rcount)]

\* ----------------------------------------------------------------- compare

\* Traits::length(p): the number of characters before the terminator.
RECURSIVE traits_length(_)
traits_length(p) == IF Deref(p) = NUL THEN 0 ELSE 1 + traits_length(p + 1)

\* __strlen(data): 0 for the null pointer, else Traits::length(data).
strlen(p) == IF p = NULL THEN 0 ELSE traits_length(p)

\* basic_string_view(const CharT* s): m_data(s), m_size(__strlen(s))
basic_string_view_cstr(p) == [m_data |-> p, m_size |-> strlen(p)]

\* Traits::compare(p1, p2, n) of std::char_traits: the difference of the
\* first pair of characters that differ among the first n, 0 when none does.
\* No character is read when n is 0.
RECURSIVE traits_compare(_, _, _)
traits_compare(p1, p2, n) ==
  IF n = 0 THEN 0
  ELSE IF Deref(p1) # Deref(p2) THEN Deref(p1) - Deref(p2)
  ELSE traits_compare(p1 + 1, p2 + 1, n - 1)

\* compare ignoring the sizes once the common prefix is equal.
compare_no_tiebreak(a, b) ==
  LET rlen == Min(a.m_size, b.m_size)
  IN  traits_compare(a.m_data, b.m_data, rlen)

\* compare(v): Traits::compare over rlen = min(m_size, v.m_size) characters;
\* when that is 0, the sizes decide.
compare(a, b) ==
  LET rlen == Min(a.m_size, b.m_size)
      comparison == traits_compare(a.m_data, b.m_data, rlen)
  IN  IF comparison # 0 THEN comparison
      ELSE IF a.m_size = b.m_size THEN 0
      ELSE IF a.m_size < b.m_size THEN -1 ELSE 1

\* The result of a call that cannot throw.
Ok(x) == [thrown |-> FALSE, val |-> x]

\* The out-of-range failure leaving a call.
Throw == [thrown |-> TRUE, val |-> NoResult]

\* compare(pos1, count1, v): substr(pos1, count1).compare(v)
compare_3(sv, pos1, count1, vv) ==
  LET sub == substr(sv, pos1, count1)
  IN  IF sub.thrown THEN Throw ELSE Ok(compare(sub.val, vv))

\* compare(pos1, count1, v, pos2, count2):
\* substr(pos1, count1).compare(v.substr(pos2, count2))
compare_5(sv, pos1, count1, vv, pos2, count2) ==
  LET sub1 == substr(sv, pos1, count1)
      sub2 == substr(vv, pos2, count2)
  IN  IF sub1.thrown \/ sub2.thrown THEN Throw
      ELSE Ok(compare(sub1.val, sub2.val))

\* compare(const CharT* s): compare(basic_string_view(s))
compare_s(sv, p) == Ok(compare(sv, basic_string_view_cstr(p)))

\* compare(pos1, count1, const CharT* s):
\* substr(pos1, count1).compare(basic_string_view(s))
compare_3s(sv, pos1, count1, p) ==
  compare_3(sv, pos1, count1, basic_string_view_cstr(p))

\* compare(pos1, count1, const CharT* s, count2):
\* substr(pos1, count1).compare(basic_string_view(s, count2))
compare_4s(sv, pos1, count1, p, count2) ==
  compare_3(sv, pos1, count1, basic_string_view(p, count2))

\* The relational operators: each a test on the sign of a.compare(b).
operator_eq(a, b) == compare(a, b) = 0
operator_ne(a, b) == compare(a, b) # 0
operator_lt(a, b) == compare(a, b) < 0
operator_gt(a, b) == compare(a, b) > 0
operator_le(a, b) == compare(a, b) <= 0

\* operator>= testing for a positive sign only.
operator_ge_strict(a, b) == compare(a, b) > 0

operator_ge(a, b) == compare(a, b) >= 0

\* ------------------------------------------------- starts_with, ends_with

\* starts_with refusing a prefix as long as the view (> for >=).
starts_with_strict(sv, x) ==
  IF ~(sv.m_size > x.m_size) THEN [thrown |-> FALSE, val |-> FALSE]
  ELSE LET sub == substr(sv, 0, x.m_size)
       IN  IF sub.thrown THEN [thrown |-> TRUE, val |-> NoResult]
           ELSE [thrown |-> FALSE, val |-> operator_eq(sub.val, x)]

\* starts_with(sv): m_size >= sv.m_size && substr(0, sv.m_size) == sv
starts_with(sv, x) ==
  IF ~(sv.m_size >= x.m_size) THEN Ok(FALSE)
  ELSE LET sub == substr(sv, 0, x.m_size)
       IN  IF sub.thrown THEN Throw ELSE Ok(operator_eq(sub.val, x))

\* ends_with(sv): m_size >= sv.m_size && substr(m_size - sv.m_size, npos) == sv
ends_with(sv, x) ==
  IF ~(sv.m_size >= x.m_size) THEN Ok(FALSE)
  ELSE LET sub == substr(sv, Wrap(sv.m_size - x.m_size), npos)
       IN  IF sub.thrown THEN Throw ELSE Ok(operator_eq(sub.val, x))

\* -------------------------------------------------------------- find, rfind

\* The loop of find stopping one position early (< for <=).
RECURSIVE find_loop_strict(_, _, _)
find_loop_strict(sv, vv, pos) ==
  IF Wrap(pos + vv.m_size) < sv.m_size
    THEN IF traits_compare(sv.m_data + pos, vv.m_data, vv.m_size) = 0
           THEN pos
           ELSE find_loop_strict(sv, vv, Wrap(pos + 1))
    ELSE npos

\* The loop of find: while (pos + v.m_size <= m_size), return pos at the
\* first match of Traits::compare, else pos++.
RECURSIVE find_loop(_, _, _)
find_loop(sv, vv, pos) ==
  IF Wrap(pos + vv.m_size) <= sv.m_size
    THEN IF traits_compare(sv.m_data + pos, vv.m_data, vv.m_size) = 0
           THEN pos
           ELSE find_loop(sv, vv, Wrap(pos + 1))
    ELSE npos

\* find(v, pos)
find(sv, vv, pos) ==
  IF sv.m_size = 0 /\ vv.m_size = 0 /\ pos = 0 THEN 0
  ELSE IF pos > sv.m_size \/ vv.m_size > Wrap(sv.m_size - pos) THEN npos
  ELSE find_loop(sv, vv, pos)

\* The loop of rfind never trying position 0 (pos != 0 for pos != npos).
RECURSIVE rfind_loop_skip_zero(_, _, _)
rfind_loop_skip_zero(sv, sn, pos) ==
  IF pos # 0
    THEN IF traits_compare(sv.m_data + pos, sn.m_data, sn.m_size) = 0
           THEN pos
           ELSE rfind_loop_skip_zero(sv, sn, Wrap(pos - 1))
    ELSE npos

\* The loop of rfind: while (pos != npos), return pos at the first match of
\* Traits::compare, else pos--.
RECURSIVE rfind_loop(_, _, _)
rfind_loop(sv, sn, pos) ==
  IF pos # npos
    THEN IF traits_compare(sv.m_data + pos, sn.m_data, sn.m_size) = 0
           THEN pos
           ELSE rfind_loop(sv, sn, Wrap(pos - 1))
    ELSE npos

\* rfind(s, pos)
rfind(sv, sn, pos) ==
  IF sn.m_size = 0 THEN Min(pos, sv.m_size)
  ELSE IF sn.m_size > sv.m_size THEN npos
  ELSE rfind_loop(sv, sn, Min(pos, Wrap(sv.m_size - sn.m_size)))

\* ------------------------------------------------------ the find_*_of family

\* Traits::find(p, n, c) of std::char_traits: the pointer to the first of the
\* n characters at p that equals c, the null pointer when none does.
RECURSIVE traits_find(_, _, _)
traits_find(p, n, c) ==
  IF n = 0 THEN NULL
  ELSE IF Deref(p) = c THEN p
  ELSE traits_find(p + 1, n - 1, c)

\* find_first_of(s, pos): while (pos < m_size), return pos when m_data[pos]
\* is found in s, else pos++.
RECURSIVE find_first_of(_, _, _)
find_first_of(sv, set, pos) ==
  IF pos < sv.m_size
    THEN IF traits_find(set.m_data, set.m_size, Deref(sv.m_data + pos)) # NULL
           THEN pos
           ELSE find_first_of(sv, set, Wrap(pos + 1))
    ELSE npos

\* find_first_not_of with the test of find_first_of.
find_first_not_of_as_of(sv, set, pos) == find_first_of(sv, set, pos)

\* find_first_not_of(s, pos): the same loop, returning pos when m_data[pos]
\* is not found in s.
RECURSIVE find_first_not_of(_, _, _)
find_first_not_of(sv, set, pos) ==
  IF pos < sv.m_size
    THEN IF traits_find(set.m_data, set.m_size, Deref(sv.m_data + pos)) = NULL
           THEN pos
           ELSE find_first_not_of(sv, set, Wrap(pos + 1))
    ELSE npos

\* The loop of find_last_of: while (pos != npos), return pos when m_data[pos]
\* is found in s, else pos--.
RECURSIVE find_last_of_loop(_, _, _)
find_last_of_loop(sv, set, pos) ==
  IF pos # npos
    THEN IF traits_find(set.m_data, set.m_size, Deref(sv.m_data + pos)) # NULL
           THEN pos
           ELSE find_last_of_loop(sv, set, Wrap(pos - 1))
    ELSE npos

\* find_last_of clamping pos to m_size, not to m_size - 1.
find_last_of_no_clamp(sv, set, pos) ==
  IF sv.m_size = 0 THEN npos
  ELSE find_last_of_loop(sv, set, Min(pos, sv.m_size))

\* find_last_of(s, pos)
find_last_of(sv, set, pos) ==
  IF sv.m_size = 0 THEN npos
  ELSE find_last_of_loop(sv, set, Min(pos, Wrap(sv.m_size - 1)))

\* The loop of find_last_not_of.
RECURSIVE find_last_not_of_loop(_, _, _)
find_last_not_of_loop(sv, set, pos) ==
  IF pos # npos
    THEN IF traits_find(set.m_data, set.m_size, Deref(sv.m_data + pos)) = NULL
           THEN pos
           ELSE find_last_not_of_loop(sv, set, Wrap(pos - 1))
    ELSE npos

\* find_last_not_of(s, pos)
find_last_not_of(sv, set, pos) ==
  IF sv.m_size = 0 THEN npos
  ELSE find_last_not_of_loop(sv, set, Min(pos, Wrap(sv.m_size - 1)))

\* ---------------------------------------------------- the characters read

\* The addresses p, p + 1, ..., p + n - 1: the range a call of Traits is
\* given to read, or (n = 1) the address of one m_data[pos].
Span(p, n) == {p + k : k \in 0 .. n - 1}

\* What a call did: the addresses it read through the receiver's data (hay)
\* and through its argument's (ndl), the positions its loop body ran at in
\* order (visits), the sums pos + v.m_size its loop condition computed, not
\* reduced modulo 2^W (sums), and the value its loop returned (ret).
Access(h, n, vis, sm, r) ==
  [hay |-> h, ndl |-> n, visits |-> vis, sums |-> sm, ret |-> r]

NoAccess == Access({}, {}, <<>>, {}, NoResult)

\* at: m_data[pos] when pos < m_size.
at_access(sv, pos) ==
  IF pos < sv.m_size THEN Access({sv.m_data + pos}, {}, <<>>, {}, NoResult)
  ELSE NoAccess

\* copy: Traits::copy(dest, m_data + pos, rcount), unless it throws.
copy_access(sv, count, pos) ==
  IF sv.m_size < pos THEN NoAccess
  ELSE Access(Span(sv.m_data + pos, Min(count, Wrap(sv.m_size - pos))),
              {}, <<>>, {}, NoResult)

\* compare: Traits::compare(m_data, v.m_data, rlen).
compare_access(a, b) ==
  LET rlen == Min(a.m_size, b.m_size)
  IN  Access(Span(a.m_data, rlen), Span(b.m_data, rlen), <<>>, {}, NoResult)

\* compare(pos1, count1, v)
compare_3_access(sv, pos1, count1, vv) ==
  LET sub == substr(sv, pos1, count1)
  IN  IF sub.thrown THEN NoAccess ELSE compare_access(sub.val, vv)

\* compare(pos1, count1, v, pos2, count2)
compare_5_access(sv, pos1, count1, vv, pos2, count2) ==
  LET sub1 == substr(sv, pos1, count1)
      sub2 == substr(vv, pos2, count2)
  IN  IF sub1.thrown \/ sub2.thrown THEN NoAccess
      ELSE compare_access(sub1.val, sub2.val)

\* basic_string_view(const CharT* s): Traits::length reads the string at s
\* up to and including its terminator.
cstr_access(p) == IF p = NULL THEN {} ELSE Span(p, traits_length(p) + 1)

\* A compare overload taking a null-terminated string at p: the accesses a
\* of the comparison, and those of the constructor.
with_cstr(a, p) == [a EXCEPT !.ndl = @ \cup cstr_access(p)]

\* starts_with(sv)
starts_with_access(sv, x) ==
  IF ~(sv.m_size >= x.m_size) THEN NoAccess
  ELSE compare_3_access(sv, 0, x.m_size, x)

\* ends_with(sv)
ends_with_access(sv, x) ==
  IF ~(sv.m_size >= x.m_size) THEN NoAccess
  ELSE compare_3_access(sv, Wrap(sv.m_size - x.m_size), npos, x)

\* The loop of find, with what it reads and where it runs.
RECURSIVE find_loop_access(_, _, _)
find_loop_access(sv, vv, pos) ==
  IF Wrap(pos + vv.m_size) <= sv.m_size
    THEN IF traits_compare(sv.m_data + pos, vv.m_data, vv.m_size) = 0
           THEN Access(Span(sv.m_data + pos, vv.m_size),
                       Span(vv.m_data, vv.m_size),
                       <<pos>>, {pos + vv.m_size}, pos)
           ELSE LET rest == find_loop_access(sv, vv, Wrap(pos + 1))
                IN  Access(Span(sv.m_data + pos, vv.m_size) \cup rest.hay,
                           Span(vv.m_data, vv.m_size) \cup rest.ndl,
                           <<pos>> \o rest.visits,
                           {pos + vv.m_size} \cup rest.sums, rest.ret)
    ELSE Access({}, {}, <<>>, {pos + vv.m_size}, npos)

\* find(v, pos)
find_access(sv, vv, pos) ==
  IF sv.m_size = 0 /\ vv.m_size = 0 /\ pos = 0
    THEN Access({}, {}, <<>>, {}, 0)
  ELSE IF pos > sv.m_size \/ vv.m_size > Wrap(sv.m_size - pos)
    THEN Access({}, {}, <<>>, {}, npos)
  ELSE find_loop_access(sv, vv, pos)

\* The loop of rfind never running at position 0.
RECURSIVE rfind_loop_access_skip_zero(_, _, _)
rfind_loop_access_skip_zero(sv, sn, pos) ==
  IF pos # 0
    THEN IF traits_compare(sv.m_data + pos, sn.m_data, sn.m_size) = 0
           THEN Access(Span(sv.m_data + pos, sn.m_size),
                       Span(sn.m_data, sn.m_size), <<pos>>, {}, pos)
           ELSE LET rest == rfind_loop_access_skip_zero(sv, sn, Wrap(pos - 1))
                IN  Access(Span(sv.m_data + pos, sn.m_size) \cup rest.hay,
                           Span(sn.m_data, sn.m_size) \cup rest.ndl,
                           <<pos>> \o rest.visits, {}, rest.ret)
    ELSE Access({}, {}, <<>>, {}, npos)

\* The loop of rfind, with what it reads and where it runs.
RECURSIVE rfind_loop_access(_, _, _)
rfind_loop_access(sv, sn, pos) ==
  IF pos # npos
    THEN IF traits_compare(sv.m_data + pos, sn.m_data, sn.m_size) = 0
           THEN Access(Span(sv.m_data + pos, sn.m_size),
                       Span(sn.m_data, sn.m_size), <<pos>>, {}, pos)
           ELSE LET rest == rfind_loop_access(sv, sn, Wrap(pos - 1))
                IN  Access(Span(sv.m_data + pos, sn.m_size) \cup rest.hay,
                           Span(sn.m_data, sn.m_size) \cup rest.ndl,
                           <<pos>> \o rest.visits, {}, rest.ret)
    ELSE Access({}, {}, <<>>, {}, npos)

\* rfind(s, pos)
rfind_access(sv, sn, pos) ==
  IF sn.m_size = 0 THEN Access({}, {}, <<>>, {}, Min(pos, sv.m_size))
  ELSE IF sn.m_size > sv.m_size THEN Access({}, {}, <<>>, {}, npos)
  ELSE rfind_loop_access(sv, sn, Min(pos, Wrap(sv.m_size - sn.m_size)))

\* The loop of find_first_of (member = TRUE) and of find_first_not_of
\* (member = FALSE): m_data[pos], and Traits::find over the set.
RECURSIVE find_first_access(_, _, _, _)
find_first_access(sv, set, pos, member) ==
  IF pos < sv.m_size
    THEN IF (traits_find(set.m_data, set.m_size, Deref(sv.m_data + pos)) # NULL)
              = member
           THEN Access({sv.m_data + pos}, Span(set.m_data, set.m_size),
                       <<pos>>, {}, pos)
           ELSE LET rest == find_first_access(sv, set, Wrap(pos + 1), member)
                IN  Access({sv.m_data + pos} \cup rest.hay,
                           Span(set.m_data, set.m_size) \cup rest.ndl,
                           <<pos>> \o rest.visits, {}, rest.ret)
    ELSE Access({}, {}, <<>>, {}, npos)

\* The loop of find_last_of (member = TRUE) and of find_last_not_of
\* (member = FALSE).
RECURSIVE find_last_loop_access(_, _, _, _)
find_last_loop_access(sv, set, pos, member) ==
  IF pos # npos
    THEN IF (traits_find(set.m_data, set.m_size, Deref(sv.m_data + pos)) # NULL)
              = member
           THEN Access({sv.m_data + pos}, Span(set.m_data, set.m_size),
                       <<pos>>, {}, pos)
           ELSE LET rest == find_last_loop_access(sv, set, Wrap(pos - 1), member)
                IN  Access({sv.m_data + pos} \cup rest.hay,
                           Span(set.m_data, set.m_size) \cup rest.ndl,
                           <<pos>> \o rest.visits, {}, rest.ret)
    ELSE Access({}, {}, <<>>, {}, npos)

\* find_last_of and find_last_not_of clamping pos to m_size, not m_size - 1.
find_last_access_no_clamp(sv, set, pos, member) ==
  IF sv.m_size = 0 THEN Access({}, {}, <<>>, {}, npos)
  ELSE find_last_loop_access(sv, set, Min(pos, sv.m_size), member)

\* find_last_of(s, pos) and find_last_not_of(s, pos)
find_last_access(sv, set, pos, member) ==
  IF sv.m_size = 0 THEN Access({}, {}, <<>>, {}, npos)
  ELSE find_last_loop_access(sv, set, Min(pos, Wrap(sv.m_size - 1)), member)

\* ------------------------------------------------------- stream insertion

\* The characters operator<< writes around the view, and the stream's fill
\* character.
QUOTE == 34
FILL == 32

\* A std::ostream: its field width, its left-adjustment flag, whether a
\* sentry on it succeeds, and the characters written to it.
Stream(width, left, good) ==
  [width |-> width, left |-> left, good |-> good, out |-> <<>>]

NoStream == Stream(0, FALSE, TRUE)

\* while (--padding) os.put(filler)
RECURSIVE put_fill(_, _)
put_fill(out, padding) ==
  LET p == Wrap(padding - 1)
  IN  IF p # 0 THEN put_fill(Append(out, FILL), p) ELSE out

\* operator<<(os, s): nothing when the sentry fails; otherwise '"', the
\* fill before the characters unless left-adjusted, the characters, the
\* fill after them when left-adjusted, '"', and width(0).
operator_insert(o, sv) ==
  IF ~o.good THEN o
  ELSE LET o1 == Append(o.out, QUOTE)
           padding == IF sv.m_size < o.width
                        THEN Wrap(o.width - sv.m_size) ELSE 0
           o2 == IF padding > 0 /\ ~o.left THEN put_fill(o1, padding) ELSE o1
           o3 == o2 \o Content(sv)
           o4 == IF padding > 0 /\ o.left THEN put_fill(o3, padding) ELSE o3
           o5 == Append(o4, QUOTE)
       IN  [o EXCEPT !.out = o5, !.width = 0]

\* ----------------------------------------------------------------- actions

\* No call's result is being held: the caller may construct a view or call.
Idle == op = "idle"

Init ==
  /\ mem \in {m \in [Ptrs -> Chars \cup {NUL}] :
                /\ m[MaxLen + 1] = NUL
                /\ \A a \in Addrs : m[a] \in Chars}
  /\ s = basic_string_view_default
  /\ v = basic_string_view_default
  /\ op = "idle"
  /\ args = <<>>
  /\ ret = NoResult
  /\ thrown = FALSE
  /\ dest = FreshDest
  /\ acc = NoAccess
  /\ os = NoStream

\* string_view s; or string_view s(p, count): (re)construct the receiver.
ConstructS ==
  /\ Idle
  /\ \E w \in ValidViews : s' = w
  /\ UNCHANGED <<mem, v, op, args, ret, thrown, dest, acc, os>>

\* string_view v; or string_view v(p, count): (re)construct the argument.
ConstructV ==
  /\ Idle
  /\ \E w \in ValidViews : v' = w
  /\ UNCHANGED <<mem, s, op, args, ret, thrown, dest, acc, os>>

\* The caller drops the result of the last call; the destination array of a
\* copy and the stream of an insertion go out of scope with it.
Discard ==
  /\ ~Idle
  /\ op' = "idle"
  /\ args' = <<>>
  /\ ret' = NoResult
  /\ thrown' = FALSE
  /\ dest' = FreshDest
  /\ acc' = NoAccess
  /\ os' = NoStream
  /\ UNCHANGED <<mem, s, v>>

\* What the call `name` with arguments `a` reads, on the views as they are.
AccessOf(name, a) ==
  CASE name = "at" -> at_access(s, a[1])
    [] name \in {"compare", "==", "!=", "<", ">", "<=", ">="} ->
         compare_access(s, v)
    [] name = "compare_3" -> compare_3_access(s, a[1], a[2], v)
    [] name = "compare_5" -> compare_5_access(s, a[1], a[2], v, a[3], a[4])
    [] name = "compare_s" ->
         with_cstr(compare_access(s, basic_string_view_cstr(v.m_data)), v.m_data)
    [] name = "compare_3s" ->
         with_cstr(compare_3_access(s, a[1], a[2],
                                    basic_string_view_cstr(v.m_data)), v.m_data)
    [] name = "compare_4s" -> compare_3_access(s, a[1], a[2], v)
    [] name = "starts_with" -> starts_with_access(s, v)
    [] name = "ends_with" -> ends_with_access(s, v)
    [] name = "find" -> find_access(s, v, a[1])
    [] name = "rfind" -> rfind_access(s, v, a[1])
    [] name = "find_first_of" -> find_first_access(s, v, a[1], TRUE)
    [] name = "find_first_not_of" -> find_first_access(s, v, a[1], FALSE)
    [] name = "find_last_of" -> find_last_access(s, v, a[1], TRUE)
    [] name = "find_last_not_of" -> find_last_access(s, v, a[1], FALSE)
    [] OTHER -> NoAccess

\* The effect of a const member function: its result or its failure, and
\* nothing else.
Returns(name, a, r) ==
  /\ op' = name
  /\ args' = a
  /\ ret' = r.val
  /\ thrown' = r.thrown
  /\ acc' = AccessOf(name, a)
  /\ UNCHANGED <<mem, s, v, dest, os>>

CallAt ==
  /\ Idle
  /\ \E pos \in SizeVals : Returns("at", <<pos>>, at(s, pos))

CallSubstr ==
  /\ Idle
  /\ \E pos \in SizeVals, count \in SizeVals :
       Returns("substr", <<pos, count>>, substr(s, pos, count))

\* string_view s(p): construct the receiver from the null-terminated string
\* at p (a pointer into the buffer, or a null const CharT*).
ConstructSCstr ==
  /\ Idle
  /\ \E p \in Ptrs \cup {NULL} : s' = basic_string_view_cstr(p)
  /\ UNCHANGED <<mem, v, op, args, ret, thrown, dest, acc, os>>

\* The effect of a modifier: the views after it, and no result.
Modifies(name, a, this, vv) ==
  /\ op' = name
  /\ args' = a
  /\ s' = this
  /\ v' = vv
  /\ ret' = NoResult
  /\ thrown' = FALSE
  /\ UNCHANGED <<mem, dest, acc, os>>

\* s.remove_prefix(n), the caller keeping to n <= size().
CallRemovePrefix ==
  /\ Idle
  /\ \E n \in 0 .. s.m_size :
       Modifies("remove_prefix", <<n>>, remove_prefix(s, n), v)

\* s.remove_suffix(n), the caller keeping to n <= size().
CallRemoveSuffix ==
  /\ Idle
  /\ \E n \in 0 .. s.m_size :
       Modifies("remove_suffix", <<n>>, remove_suffix(s, n), v)

\* s.swap(v)
CallSwap ==
  /\ Idle
  /\ Modifies("swap", <<>>, swap(s, v)[1], swap(s, v)[2])

\* s = v
CallAssign ==
  /\ Idle
  /\ Modifies("=", <<>>, operator_assign(s, v), v)

\* char dest[MaxLen] = {}; s.copy(dest, count, pos): the array holds every
\* character a view over the buffer can have.
CallCopy ==
  /\ Idle
  /\ \E count \in SizeVals, pos \in SizeVals :
       LET r == copy(s, FreshDest, count, pos)
       IN  /\ op' = "copy"
           /\ args' = <<count, pos>>
           /\ ret' = r.val
           /\ thrown' = r.thrown
           /\ dest' = r.out
           /\ acc' = copy_access(s, count, pos)
           /\ UNCHANGED <<mem, s, v, os>>

\* The widths a stream is given: up to two more than the longest view.
Widths == 0 .. (MaxLen + 2)

\* os << s, on a stream set up with a width and an adjustment, good or not.
CallInsert ==
  /\ Idle
  /\ \E width \in Widths, left \in BOOLEAN, good \in BOOLEAN :
       /\ op' = "<<"
       /\ args' = <<width, left, good>>
       /\ os' = operator_insert(Stream(width, left, good), s)
       /\ ret' = NoResult
       /\ thrown' = FALSE
       /\ acc' = IF good THEN Access(Span(s.m_data, s.m_size), {}, <<>>, {}, NoResult)
                 ELSE NoAccess
       /\ UNCHANGED <<mem, s, v, dest>>

CallCompare ==
  /\ Idle
  /\ Returns("compare", <<>>, Ok(compare(s, v)))

\* The counts the ranged compare overloads are called with.
CountVals == {0, 1, npos}

CallCompare3 ==
  /\ Idle
  /\ \E pos1 \in SizeVals, count1 \in CountVals :
       Returns("compare_3", <<pos1, count1>>, compare_3(s, pos1, count1, v))

CallCompare5 ==
  /\ Idle
  /\ \E pos1 \in SizeVals, pos2 \in SizeVals,
        count1 \in {1, npos}, count2 \in {1, npos} :
       Returns("compare_5", <<pos1, count1, pos2, count2>>,
               compare_5(s, pos1, count1, v, pos2, count2))

\* s.compare(v.data()): the argument is the null-terminated string at v's
\* data pointer.
CallCompareS ==
  /\ Idle
  /\ Returns("compare_s", <<>>, compare_s(s, v.m_data))

CallCompare3S ==
  /\ Idle
  /\ \E pos1 \in SizeVals, count1 \in CountVals :
       Returns("compare_3s", <<pos1, count1>>,
               compare_3s(s, pos1, count1, v.m_data))

\* s.compare(pos1, count1, v.data(), v.size())
CallCompare4S ==
  /\ Idle
  /\ \E pos1 \in SizeVals, count1 \in CountVals :
       Returns("compare_4s", <<pos1, count1>>,
               compare_4s(s, pos1, count1, v.m_data, v.m_size))

CallOperatorEq ==
  /\ Idle
  /\ Returns("==", <<>>, Ok(operator_eq(s, v)))

CallOperatorNe ==
  /\ Idle
  /\ Returns("!=", <<>>, Ok(operator_ne(s, v)))

CallOperatorLt ==
  /\ Idle
  /\ Returns("<", <<>>, Ok(operator_lt(s, v)))

CallOperatorGt ==
  /\ Idle
  /\ Returns(">", <<>>, Ok(operator_gt(s, v)))

CallOperatorLe ==
  /\ Idle
  /\ Returns("<=", <<>>, Ok(operator_le(s, v)))

CallOperatorGe ==
  /\ Idle
  /\ Returns(">=", <<>>, Ok(operator_ge(s, v)))

CallStartsWith ==
  /\ Idle
  /\ Returns("starts_with", <<>>, starts_with(s, v))

CallEndsWith ==
  /\ Idle
  /\ Returns("ends_with", <<>>, ends_with(s, v))

CallFind ==
  /\ Idle
  /\ \E pos \in SizeVals : Returns("find", <<pos>>, Ok(find(s, v, pos)))

CallRfind ==
  /\ Idle
  /\ \E pos \in SizeVals : Returns("rfind", <<pos>>, Ok(rfind(s, v, pos)))

CallFindFirstOf ==
  /\ Idle
  /\ \E pos \in SizeVals :
       Returns("find_first_of", <<pos>>, Ok(find_first_of(s, v, pos)))

CallFindFirstNotOf ==
  /\ Idle
  /\ \E pos \in SizeVals :
       Returns("find_first_not_of", <<pos>>, Ok(find_first_not_of(s, v, pos)))

CallFindLastOf ==
  /\ Idle
  /\ \E pos \in SizeVals :
       Returns("find_last_of", <<pos>>, Ok(find_last_of(s, v, pos)))

CallFindLastNotOf ==
  /\ Idle
  /\ \E pos \in SizeVals :
       Returns("find_last_not_of", <<pos>>, Ok(find_last_not_of(s, v, pos)))

\* -------------------------------------------------------- specifications

\* Slicing and element access of one view.
NextSlice == ConstructS \/ Discard \/ CallAt \/ CallSubstr

SpecSlice == Init /\ [][NextSlice]_vars

\* Three-way comparison and the relational operators.
NextCompare ==
  \/ ConstructS \/ ConstructV \/ Discard
  \/ CallCompare \/ CallCompareS
  \/ CallOperatorEq \/ CallOperatorNe \/ CallOperatorLt
  \/ CallOperatorGt \/ CallOperatorLe \/ CallOperatorGe

SpecCompare == Init /\ [][NextCompare]_vars

\* Prefix and suffix predicates.
NextPrefix ==
  ConstructS \/ ConstructV \/ Discard \/ CallStartsWith \/ CallEndsWith

SpecPrefix == Init /\ [][NextPrefix]_vars

\* Substring search.
NextFind == ConstructS \/ ConstructV \/ Discard \/ CallFind \/ CallRfind

SpecFind == Init /\ [][NextFind]_vars

\* Character-set search.
NextFindOf ==
  \/ ConstructS \/ ConstructV \/ Discard
  \/ CallFindFirstOf \/ CallFindFirstNotOf
  \/ CallFindLastOf \/ CallFindLastNotOf

SpecFindOf == Init /\ [][NextFindOf]_vars

\* Copying out of a view, constructed over a range or a null-terminated
\* string.
NextCopy == ConstructS \/ ConstructSCstr \/ Discard \/ CallCopy

SpecCopy == Init /\ [][NextCopy]_vars

\* Every search.
NextSearch ==
  \/ ConstructS \/ ConstructV \/ Discard
  \/ CallFind \/ CallRfind
  \/ CallFindFirstOf \/ CallFindFirstNotOf
  \/ CallFindLastOf \/ CallFindLastNotOf

SpecSearch == Init /\ [][NextSearch]_vars

\* Stream insertion.
NextStream == ConstructS \/ Discard \/ CallInsert

SpecStream == Init /\ [][NextStream]_vars

\* Every operation.
Next ==
  \/ ConstructS \/ ConstructV \/ ConstructSCstr \/ Discard
  \/ CallRemovePrefix \/ CallRemoveSuffix \/ CallSwap \/ CallAssign
  \/ CallAt \/ CallSubstr \/ CallCopy \/ CallInsert
  \/ CallCompare \/ CallCompareS
  \/ CallCompare3 \/ CallCompare5 \/ CallCompare3S \/ CallCompare4S
  \/ CallOperatorEq \/ CallOperatorNe \/ CallOperatorLt
  \/ CallOperatorGt \/ CallOperatorLe \/ CallOperatorGe
  \/ CallStartsWith \/ CallEndsWith
  \/ CallFind \/ CallRfind
  \/ CallFindFirstOf \/ CallFindFirstNotOf
  \/ CallFindLastOf \/ CallFindLastNotOf

Spec == Init /\ [][Next]_vars

\* ------------------------------------------------------------- properties

TypeOK ==
  /\ mem \in [Ptrs -> Chars \cup {NUL}]
  /\ s \in ValidViews
  /\ v \in ValidViews
  /\ thrown \in BOOLEAN
  /\ acc.hay \subseteq Ptrs /\ acc.ndl \subseteq Ptrs
  /\ acc.visits \in Seq(0 .. npos)
  /\ os.width \in Widths /\ os.out \in Seq(Chars \cup {QUOTE, FILL})

Sign(x) == IF x < 0 THEN -1 ELSE IF x > 0 THEN 1 ELSE 0

SetMin(S) == CHOOSE x \in S : \A y \in S : x <= y
SetMax(S) == CHOOSE x \in S : \A y \in S : y <= x

\* The empty views: the default one and the zero-length view at each pointer.
EmptyViews == {e \in ValidViews : e.m_size = 0}

\* C1: substr(pos, count) with pos <= size() returns a view of
\* min(count, size() - pos) characters whose i-th character is s[pos + i];
\* a non-empty result starts at data + pos (it aliases, nothing is copied).
C1_SubstrSlice ==
  (op = "substr" /\ args[1] <= s.m_size) =>
    /\ ~thrown
    /\ ret.m_size = Min(args[2], s.m_size - args[1])
    /\ \A i \in 0 .. ret.m_size - 1 :
         Deref(ret.m_data + i) = Deref(s.m_data + args[1] + i)
    /\ ret.m_size > 0 => ret.m_data = s.m_data + args[1]

\* substr(1, npos) of a three-character view returned its last two characters.
C1_Witness ==
  /\ op = "substr" /\ ~thrown
  /\ s.m_size = 3 /\ args = <<1, npos>>
  /\ ret.m_size = 2 /\ ret.m_data = s.m_data + 1

\* C2: when the computed length of substr(pos, count) is 0 (count = 0 or
\* pos = size(), with pos <= size()), the result has null data and size 0,
\* and compares equal to the default-constructed view and to every empty
\* view, whatever its data pointer.
C2_SubstrEmptyCanonical ==
  (op = "substr" /\ args[1] <= s.m_size /\ (args[2] = 0 \/ args[1] = s.m_size)) =>
    /\ ~thrown
    /\ ret.m_data = NULL
    /\ ret.m_size = 0
    /\ operator_eq(ret, basic_string_view_default)
    /\ \A e \in EmptyViews : operator_eq(ret, e) /\ operator_eq(e, ret)

\* substr(size(), npos) of a non-empty view in the middle of the buffer
\* returned the default view.
C2_Witness ==
  /\ op = "substr" /\ ~thrown
  /\ s.m_size = 2 /\ s.m_data = 1 /\ args = <<2, npos>>
  /\ ret = basic_string_view_default

RangedCompares == {"compare_3", "compare_5", "compare_3s", "compare_4s"}

\* The cases C3 lists for the out-of-range failure.
C3_ListedCase ==
  \/ op = "at" /\ args[1] >= s.m_size
  \/ op = "substr" /\ args[1] > s.m_size
  \/ op \in RangedCompares /\ args[1] > s.m_size
  \/ op = "compare_5" /\ args[3] > v.m_size

\* What C3 says of a call's outcome, whatever the cases of failure are.
C3_Outcome ==
  /\ thrown => ret = NoResult
  /\ (op = "at" /\ ~thrown) => ret = Deref(s.m_data + args[1])

\* A failed call leaves the views (data, size) unchanged.
C3_Frame == thrown' => (s' = s /\ v' = v /\ mem' = mem)

\* C3 as stated: the out-of-range failure is raised exactly by at(pos) with
\* pos >= size(), substr(pos, count) with pos > size(), and a ranged compare
\* with pos1 > size() or (five arguments) pos2 > v.size().
C3_Original == (thrown <=> C3_ListedCase) /\ C3_Outcome

\* C3 as amended: the out-of-range failure is raised exactly in the listed
\* cases and by copy(dest, count, pos) with pos > size(); a failure leaves
\* the views unchanged and produces no result; at(pos) with pos < size()
\* returns the character at pos.
C3_OutOfRange ==
  /\ [](/\ thrown <=> (C3_ListedCase \/ (op = "copy" /\ args[2] > s.m_size))
        /\ C3_Outcome)
  /\ [][C3_Frame]_vars

\* The five-argument compare failed on pos2 = v.size() + 1 alone, pos1 being
\* within s.
C3_Witness ==
  /\ op = "compare_5" /\ thrown
  /\ args[1] <= s.m_size /\ args[3] = v.m_size + 1
  /\ s.m_size = 2 /\ v.m_size = 1

\* The lexicographic order with length tie-break, on the characters the
\* views denote: the sign of the first differing pair, else of the sizes.
LexSign(a, b) ==
  LET ca == Content(a)
      cb == Content(b)
      rlen == Min(a.m_size, b.m_size)
      diff == {i \in 1 .. rlen : ca[i] # cb[i]}
  IN  IF diff # {} THEN Sign(ca[SetMin(diff)] - cb[SetMin(diff)])
      ELSE Sign(a.m_size - b.m_size)

\* C4: a.compare(b) has the sign of the lexicographic order with length
\* tie-break, also when a view is empty with null data.
C4_CompareSign == op = "compare" => Sign(ret) = LexSign(s, v)

\* Two different two-character views with the same first character compared
\* negative.
C4_Witness ==
  /\ op = "compare" /\ ret < 0
  /\ s.m_size = 2 /\ v.m_size = 2 /\ s.m_data # v.m_data
  /\ Deref(s.m_data) = Deref(v.m_data)

\* C5: compare is a strict total order on contents: antisymmetric in sign,
\* zero exactly on equal contents, transitive; each relational operator is
\* the test on the sign of compare, and exactly one of <, ==, > holds.
C5_TotalOrder ==
  /\ op = "compare" =>
       /\ Sign(ret) = - Sign(compare(v, s))
       /\ (ret = 0) <=> (Content(s) = Content(v))
       /\ ret < 0 => \A c \in ValidViews : compare(v, c) < 0 => compare(s, c) < 0
  /\ op = "==" => (ret <=> (compare(s, v) = 0)) /\ (ret <=> (Content(s) = Content(v)))
  /\ op = "!=" => (ret <=> (LexSign(s, v) # 0))
  /\ op = "<" => (ret <=> (LexSign(s, v) < 0))
  /\ op = ">" => (ret <=> (LexSign(s, v) > 0))
  /\ op = "<=" => (ret <=> (LexSign(s, v) <= 0))
  /\ op = ">=" => (ret <=> (LexSign(s, v) >= 0))
  /\ Cardinality({r \in {"<", "==", ">"} :
        \/ r = "<" /\ operator_lt(s, v)
        \/ r = "==" /\ operator_eq(s, v)
        \/ r = ">" /\ operator_gt(s, v)}) = 1

\* operator>= returned true on two views with equal contents at different
\* addresses.
C5_Witness ==
  /\ op = ">=" /\ ret = TRUE
  /\ s.m_size = 1 /\ v.m_size = 1 /\ s.m_data # v.m_data
  /\ Content(s) = Content(v)

\* The needle vv occurs in sv at index i: it fits, and its characters equal
\* those of sv from i on.
Matches(sv, vv, i) ==
  /\ i + vv.m_size <= sv.m_size
  /\ \A k \in 0 .. vv.m_size - 1 :
       Deref(sv.m_data + i + k) = Deref(vv.m_data + k)

\* C6: find(v, pos) returns the smallest index i >= pos at which v occurs in
\* s, and npos iff there is none; npos (no failure) when pos > size() or
\* v.size() > size() - pos; an empty needle is found at every pos <= size();
\* a result r other than npos satisfies s.substr(r, v.size()) == v.
C6_Find ==
  op = "find" =>
    LET pos == args[1]
        M == {i \in 0 .. s.m_size : i >= pos /\ Matches(s, v, i)}
    IN  /\ ~thrown
        /\ (ret = npos) <=> (M = {})
        /\ M # {} => ret = SetMin(M)
        /\ (pos > s.m_size \/ v.m_size > s.m_size - pos) => ret = npos
        /\ (v.m_size = 0 /\ pos <= s.m_size) => ret = pos
        /\ ret # npos =>
             /\ ~substr(s, ret, v.m_size).thrown
             /\ operator_eq(substr(s, ret, v.m_size).val, v)

\* find("x", 1) skipped an occurrence at 0 and a mismatch at 1 and returned
\* the last index, 2.
C6_Witness ==
  /\ op = "find" /\ args = <<1>> /\ ret = 2
  /\ s.m_size = 3 /\ v.m_size = 1
  /\ Matches(s, v, 0) /\ ~Matches(s, v, 1)

\* C7: rfind(v, pos) returns min(pos, size()) when v is empty, npos when
\* v.size() > size(), and otherwise the largest index
\* i <= min(pos, size() - v.size()) at which v occurs, npos when none.
C7_Rfind ==
  op = "rfind" =>
    LET pos == args[1]
    IN  /\ ~thrown
        /\ IF v.m_size = 0 THEN ret = Min(pos, s.m_size)
           ELSE IF v.m_size > s.m_size THEN ret = npos
           ELSE LET M == {i \in 0 .. Min(pos, s.m_size - v.m_size) :
                            Matches(s, v, i)}
                IN  ret = IF M = {} THEN npos ELSE SetMax(M)

\* rfind("x", 1) on a three-character view with occurrences at 0 and 2, not
\* at 1, returned 0.
C7_Witness ==
  /\ op = "rfind" /\ args = <<1>> /\ ret = 0
  /\ s.m_size = 3 /\ v.m_size = 1
  /\ Matches(s, v, 2) /\ ~Matches(s, v, 1)

\* C8: starts_with(v) iff size() >= v.size() and the first v.size()
\* characters equal v; ends_with(v) iff size() >= v.size() and the last
\* v.size() characters equal v; hence both hold of s.substr(0, k) and
\* s.substr(size() - k) for every k <= size(); neither ever fails.
C8_PrefixSuffix ==
  /\ op = "starts_with" =>
       /\ ~thrown
       /\ ret <=> (s.m_size >= v.m_size /\ Matches(s, v, 0))
       /\ (\E k \in 0 .. s.m_size : v = substr(s, 0, k).val) => ret
  /\ op = "ends_with" =>
       /\ ~thrown
       /\ ret <=> (s.m_size >= v.m_size /\ Matches(s, v, s.m_size - v.m_size))
       /\ (\E k \in 0 .. s.m_size : v = substr(s, s.m_size - k, npos).val) => ret

\* starts_with held of the whole view, s.substr(0, size()).
C8_Witness ==
  /\ op = "starts_with" /\ ret = TRUE
  /\ s.m_size = 3 /\ v = substr(s, 0, 3).val

\* The character at index i of sv is one of the characters of set.
InSet(sv, i, set) ==
  \E k \in 0 .. set.m_size - 1 : Deref(sv.m_data + i) = Deref(set.m_data + k)

\* C9: find_first_of(t, pos) returns the smallest index i with
\* pos <= i < size() and s[i] in t, find_first_not_of(t, pos) the smallest
\* with s[i] not in t; npos when there is none, so when pos >= size(); with
\* t empty, find_first_of returns npos and find_first_not_of returns pos
\* for pos < size().
C9_FindFirst ==
  /\ op = "find_first_of" =>
       LET pos == args[1]
           M == {i \in 0 .. s.m_size - 1 : pos <= i /\ InSet(s, i, v)}
       IN  /\ ~thrown
           /\ ret = IF M = {} THEN npos ELSE SetMin(M)
           /\ pos >= s.m_size => ret = npos
           /\ v.m_size = 0 => ret = npos
  /\ op = "find_first_not_of" =>
       LET pos == args[1]
           M == {i \in 0 .. s.m_size - 1 : pos <= i /\ ~InSet(s, i, v)}
       IN  /\ ~thrown
           /\ ret = IF M = {} THEN npos ELSE SetMin(M)
           /\ pos >= s.m_size => ret = npos
           /\ (v.m_size = 0 /\ pos < s.m_size) => ret = pos

\* find_first_not_of(t, 1) skipped a character of t at 1 and returned 2.
C9_Witness ==
  /\ op = "find_first_not_of" /\ args = <<1>> /\ ret = 2
  /\ s.m_size = 3 /\ v.m_size = 1
  /\ InSet(s, 1, v)

\* C10: find_last_of(t, pos) returns npos when s is empty and otherwise the
\* largest index i <= min(pos, size() - 1) with s[i] in t, npos when there
\* is none; find_last_not_of(t, pos) the same with s[i] not in t.
C10_FindLast ==
  /\ op = "find_last_of" =>
       LET pos == args[1]
           M == {i \in 0 .. Min(pos, s.m_size - 1) : InSet(s, i, v)}
       IN  /\ ~thrown
           /\ s.m_size = 0 => ret = npos
           /\ ret = IF M = {} THEN npos ELSE SetMax(M)
  /\ op = "find_last_not_of" =>
       LET pos == args[1]
           M == {i \in 0 .. Min(pos, s.m_size - 1) : ~InSet(s, i, v)}
       IN  /\ ~thrown
           /\ s.m_size = 0 => ret = npos
           /\ ret = IF M = {} THEN npos ELSE SetMax(M)

\* find_last_of(t, npos) on a three-character view skipped its last
\* character and returned 1.
C10_Witness ==
  /\ op = "find_last_of" /\ args = <<npos>> /\ ret = 1
  /\ s.m_size = 3 /\ v.m_size = 1
  /\ ~InSet(s, 2, v)

\* The addresses of the characters a view denotes.
Range(sv) == {sv.m_data + k : k \in 0 .. sv.m_size - 1}

\* The operations that change a view.
Modifiers == {"remove_prefix", "remove_suffix", "swap", "="}

\* What one step may do to the views and to the buffer.
C11_Step ==
  /\ mem' = mem
  /\ op' = "remove_prefix" =>
       /\ s'.m_data = s.m_data + args'[1]
       /\ s'.m_size = s.m_size - args'[1]
       /\ v' = v
  /\ op' = "remove_suffix" =>
       /\ s'.m_data = s.m_data
       /\ s'.m_size = s.m_size - args'[1]
       /\ v' = v
  /\ op' \in {"remove_prefix", "remove_suffix"} => Range(s') \subseteq Range(s)
  /\ op' = "swap" => s' = v /\ v' = s
  /\ op' = "=" => s' = v /\ v' = v
  /\ (s' # s \/ v' # v) =>
       \/ op' \in Modifiers
       \/ op = "idle" /\ op' = "idle"

\* C11: a view's (data, size) changes only through remove_prefix,
\* remove_suffix, swap and assignment (and by constructing it anew):
\* remove_prefix(n) advances data by n and decreases size by n,
\* remove_suffix(n) decreases size by n and keeps data, swap exchanges the
\* pairs, every other operation leaves both pairs unchanged; after any
\* sequence of these with n <= size() each view denotes a range of the
\* buffer, and the buffer's characters are never modified.
C11_Frame ==
  /\ [](s \in ValidViews /\ v \in ValidViews)
  /\ [][C11_Step]_vars

\* remove_prefix(1) left the last two characters of the buffer.
C11_Witness ==
  /\ op = "remove_prefix" /\ args = <<1>>
  /\ s = basic_string_view(2, 2)

\* What C12 says of the state a copy leaves.
C12_Result ==
  op = "copy" =>
    LET count == args[1]
        pos == args[2]
    IN  IF pos <= s.m_size
          THEN /\ ~thrown
               /\ ret = Min(count, s.m_size - pos)
               /\ \A i \in 1 .. MaxLen :
                    dest[i] = IF i <= ret THEN Deref(s.m_data + pos + i - 1)
                              ELSE NUL
               /\ (/\ s.m_data # NULL
                   /\ s = basic_string_view_cstr(s.m_data)
                   /\ count = s.m_size /\ pos = 0) =>
                    /\ ret = s.m_size
                    /\ Deref(s.m_data + ret) = NUL
                    /\ \A i \in 1 .. ret : dest[i] = Deref(s.m_data + i - 1)
          ELSE /\ thrown
               /\ ret = NoResult
               /\ dest = FreshDest

\* C12: copy(dest, count, pos) with pos <= size() writes exactly
\* rcount = min(count, size() - pos) characters, dest[i] = s[pos + i],
\* returns rcount and leaves the view unchanged; with pos > size() it fails
\* and writes nothing; copy(dest, size(), 0) of a view built from a
\* null-terminated string reproduces the string's characters.
C12_Copy ==
  /\ []C12_Result
  /\ [][op' = "copy" => (s' = s /\ v' = v /\ mem' = mem)]_vars

\* copy(dest, npos, 1) of the view of the whole null-terminated buffer
\* copied its last two characters.
C12_Witness ==
  /\ op = "copy" /\ ~thrown /\ args = <<npos, 1>> /\ ret = 2
  /\ s = basic_string_view_cstr(1) /\ s.m_size = 3
  /\ dest[1] = Deref(2) /\ dest[2] = Deref(3) /\ dest[3] = NUL

\* The operations whose behaviour is defined for every argument, taking a
\* view where they take a second string.
BoundedReaders ==
  {"at", "substr", "copy", "compare", "compare_3", "compare_5", "compare_4s",
   "==", "!=", "<", ">", "<=", ">=", "starts_with", "ends_with",
   "find", "rfind", "find_first_of", "find_first_not_of",
   "find_last_of", "find_last_not_of"}

\* C13: at, substr, copy, compare, starts_with and ends_with of a view, find,
\* rfind and the four find_*_of, for any arguments (positions up to npos
\* included), read the receiver only at indices in [0, size()) and the
\* argument only at indices in [0, its size); on a view of size 0 none of
\* them reads through its data at all.
C13_ReadsInRange ==
  op \in BoundedReaders =>
    /\ acc.hay \subseteq Range(s)
    /\ acc.ndl \subseteq Range(v)
    /\ s.m_size = 0 => acc.hay = {}
    /\ v.m_size = 0 => acc.ndl = {}

\* find_last_of(v, npos) on a view of two characters, none of them the one
\* character of v, read every character of both and nothing else.
C13_Witness ==
  /\ op = "find_last_of" /\ ~thrown /\ args = <<npos>> /\ ret = npos
  /\ s.m_size = 2 /\ v.m_size = 1
  /\ acc.hay = Range(s) /\ acc.ndl = Range(v)

Searches ==
  {"find", "rfind", "find_first_of", "find_first_not_of",
   "find_last_of", "find_last_not_of"}

Backward == {"rfind", "find_last_of", "find_last_not_of"}

\* The needle sizes no view of the buffer has.
LongNeedles == {n \in SizeVals : n > MaxLen}

\* C14: with a W-bit size_type, the loop of every search runs at most
\* size() + 1 times and yields the result of the call; in rfind,
\* find_last_of and find_last_not_of the position counts down by one, and a
\* search that finds nothing ran last at 0, where the decrement wraps to
\* npos and ends the loop with npos; in find no sum pos + v.size() of the
\* loop condition reaches 2^W, and a needle longer than any view is
\* rejected by the guard before the loop, whatever pos.
C14_LoopsTerminate ==
  op \in Searches =>
    /\ acc.ret = ret
    /\ Len(acc.visits) <= s.m_size + 1
    /\ \A i \in 1 .. Len(acc.visits) : acc.visits[i] <= s.m_size
    /\ op \in Backward =>
         /\ \A i \in 1 .. Len(acc.visits) - 1 :
              acc.visits[i + 1] = acc.visits[i] - 1
         /\ (acc.visits # <<>> /\ ret = npos) =>
              /\ acc.visits[Len(acc.visits)] = 0
              /\ Wrap(0 - 1) = npos
         /\ (acc.visits # <<>> /\ ret # npos) =>
              acc.visits[Len(acc.visits)] = ret
    /\ op = "find" =>
         /\ \A x \in acc.sums : x < Modulus
         /\ \A i \in 1 .. Len(acc.visits) - 1 :
              acc.visits[i + 1] = acc.visits[i] + 1
         /\ \A n \in LongNeedles :
              LET a == find_access(s, [m_data |-> v.m_data, m_size |-> n],
                                   args[1])
              IN  a.visits = <<>> /\ a.sums = {} /\ a.ret = npos

\* rfind(v, npos) on a view of two characters, neither of them the one
\* character of v, ran at 1, then at 0, and returned npos.
C14_Witness ==
  /\ op = "rfind" /\ ~thrown /\ args = <<npos>> /\ ret = npos
  /\ s.m_size = 2 /\ v.m_size = 1
  /\ acc.visits = <<1, 0>>

\* n fill characters.
Fill(n) == [i \in 1 .. n |-> FILL]

\* C15: operator<< on a good stream writes the opening quote, the size()
\* characters and the closing quote; when width() > size() it writes
\* exactly width() - size() fill characters, before the characters unless
\* the left flag is set and after them when it is; when width() <= size()
\* it writes no fill character; the width is 0 afterwards.
C15_Padded ==
  (op = "<<" /\ args[3]) =>
    LET width == args[1]
        left == args[2]
        n == IF width > s.m_size THEN width - s.m_size ELSE 0
    IN  /\ os.width = 0
        /\ os.out = <<QUOTE>>
                     \o (IF left THEN Content(s) \o Fill(n)
                                 ELSE Fill(n) \o Content(s))
                     \o <<QUOTE>>

\* What the code writes: one fill character fewer than the width lacks.
C15_OneShort ==
  (op = "<<" /\ args[3]) =>
    LET width == args[1]
        left == args[2]
        n == IF width > s.m_size THEN width - s.m_size - 1 ELSE 0
    IN  /\ os.width = 0
        /\ os.out = <<QUOTE>>
                     \o (IF left THEN Content(s) \o Fill(n)
                                 ELSE Fill(n) \o Content(s))
                     \o <<QUOTE>>

\* A view of one character inserted right-adjusted with width 3: one fill
\* character, not two.
C15_Witness ==
  /\ op = "<<" /\ args = <<3, FALSE, TRUE>> /\ s.m_size = 1
  /\ os.out = <<QUOTE, FILL>> \o Content(s) \o <<QUOTE>>

====
